---- MODULE Spec2Model ----
(***************************************************************************)
(* Model of ndp/model.py: the Agent that owns a size-indexed table of      *)
(* value estimators, grows it by pretraining, refines it by fine-tuning,   *)
(* and uses it for greedy rollouts over cubic cost tensors.                *)
(*                                                                         *)
(* Abstractions.  Cost entries are integers in 0..MaxCost (UniformGenerator*)
(* draws non-negative reals).  A ValueNetwork is an affine function of the *)
(* sum of its flattened input, with parameters w, b; an optimizer step     *)
(* moves the parameters to any value of Params.  Tensors live in a heap of *)
(* storages so that views (basic indexing) and copies (advanced indexing)  *)
(* are told apart, as torch does.                                          *)
(***************************************************************************)
EXTENDS Integers, Sequences, FiniteSets, TLC

\* ------------------------------------------------------------------ bounds
MaxN == 4                \* largest n requested from the constructor / load
MaxCost == 1             \* cost entries range over 0..MaxCost
MaxBias == 2             \* a network's bias ranges over {-MaxBias, 0}

\* the hyper_params the agent is constructed with: the smallest budgets that
\* run every loop (batch_size is the number of instances get_batch returns)
hyper_params ==
    [num_pretrain_iters |-> 1, batch_size |-> 1,
     num_finetune_iters |-> 1, finetune_batch_size |-> 1]

VARIABLES
    pc,               \* position of the single caller thread
    requested,        \* the n argument of Agent.__init__
    weights_folder,   \* TRUE: a folder is configured; FALSE: None
    n,                \* self.n
    value_networks,   \* self.value_networks (index i is element i+1)
    weights,          \* checkpoint files: name <<prefix, i>> -> parameters
    ctor_i,           \* loop variable of __init__'s for loop
    new_network,      \* local of pretrain_new_network
    iteration,        \* loop variable of the training loop in progress
    batch_i,          \* loop variable of fine_tune's inner loop
    all_rewards,      \* local of fine_tune
    all_pred_rewards, \* local of fine_tune
    heap,             \* tensor storages allocated by the running rollout
    cost,             \* get_rewards: storage id of the local `cost`
    rewards,          \* get_rewards: list of views / floats
    positions,        \* get_rewards: list of storage ids
    return_positions, \* get_rewards: argument
    caller,           \* who called get_rewards
    ret,              \* outcome of the last inference call
    loaded,           \* outcome of the last Agent.load call
    calls,            \* estimator invocations of the last step: <<index, size>>
    events,           \* construction history: phases begun, in order
    recorded          \* entries of each recorded position when it was recorded

vars == <<pc, requested, weights_folder, n, value_networks, weights, ctor_i,
          new_network, iteration, batch_i, all_rewards, all_pred_rewards,
          heap, cost, rewards, positions, return_positions, caller, ret,
          loaded, calls, events, recorded>>

agentVars == <<requested, weights_folder, n, value_networks, weights>>
trainVars == <<ctor_i, new_network, iteration, batch_i, all_rewards,
               all_pred_rewards>>
rolloutVars == <<heap, cost, rewards, positions, return_positions, caller,
                 recorded>>

\* ----------------------------------------------------------------- tensors
None == << >>

Size(t) == Len(t)                          \* cost.shape[0]
At(t, i, j, k) == t[i + 1][j + 1][k + 1]   \* cost[i, j, k], 0-based

\* sum(xs) of a Python list / the sum of the first m elements
RECURSIVE SumTo(_, _)
SumTo(xs, m) == IF m = 0 THEN 0 ELSE xs[m] + SumTo(xs, m - 1)
SumSeq(xs) == SumTo(xs, Len(xs))

\* the sum of all entries of a tensor, one axis at a time
SumAll(t) ==
    SumSeq([i \in 1..Len(t) |->
              SumSeq([j \in 1..Len(t[i]) |-> SumSeq(t[i][j])])])

\* UniformGenerator.get_instance: the instances the model draws.
Seeds == {0, 1} \X {0, 1} \X {0, 1} \X (0..MaxCost)

Tensor(size, seed) ==
    [i \in 1..size |-> [j \in 1..size |-> [k \in 1..size |->
        (seed[1] * i + seed[2] * j + seed[3] * k + seed[4]) % (MaxCost + 1)]]]

get_instance(problem_size) == { Tensor(problem_size, s) : s \in Seeds }

\* [i for i in range(size) if i != x]
Range(size) == [i \in 1..size |-> i - 1]
IndicesLeft(size, x) == SelectSeq(Range(size), LAMBDA i : i # x)

\* cost[1:][:, j_left][:, :, k_left]
EliminateTransposed(t, j, k) ==
    LET j_left == IndicesLeft(Size(t), j)
        k_left == IndicesLeft(Size(t), k)
    IN  [a \in 1..(Size(t) - 1) |->
          [b \in 1..Len(k_left) |->
            [c \in 1..Len(j_left) |-> At(t, a, k_left[b], j_left[c])]]]
Eliminate(t, j, k) ==
    LET j_left == IndicesLeft(Size(t), j)
        k_left == IndicesLeft(Size(t), k)
    IN  [a \in 1..(Size(t) - 1) |->
          [b \in 1..Len(j_left) |->
            [c \in 1..Len(k_left) |-> At(t, a, j_left[b], k_left[c])]]]

\* -------------------------------------------------------------- estimators
Params == [w : {0, 1}, b : {0 - MaxBias, 0}]

ClassicalValueEstimator(size) ==
    [cls |-> "ClassicalValueEstimator", n |-> size, w |-> 0, b |-> 0]
ValueNetwork(size, p) ==
    [cls |-> "ValueNetwork", n |-> size, w |-> p.w, b |-> p.b]
state_dict(net) == [w |-> net.w, b |-> net.b]

\* ValueNetwork.forward on a batch of one
forward(net, t) == net.w * SumAll(t) + net.b

\* ClassicalValueEstimator.__call__ on a batch of one
classical_call(est, t) ==
    IF est.n = 0 THEN 0
    ELSE IF est.n = 1 THEN At(t, 0, 0, 0)
    ELSE 0

Call(est, t) ==
    IF est.cls = "ValueNetwork" THEN forward(est, t) ELSE classical_call(est, t)

Entry(table, i) == table[i + 1]            \* self.value_networks[i]

\* ------------------------------------------------------- evaluate_position
LookaheadIndex(size) == size - 1

Improves(reward, best_reward) == reward > best_reward

Candidate(t, table, j, k) ==
    At(t, 0, j, k)
      + Call(Entry(table, LookaheadIndex(Size(t))), Eliminate(t, j, k))

\* the for loop over itertools.product(range(size), repeat=2), from the m-th pair
RECURSIVE EvalLoop(_, _, _, _)
EvalLoop(t, table, m, best) ==
    LET size == Size(t) IN
    IF m > size * size THEN best
    ELSE LET j == (m - 1) \div size
             k == (m - 1) % size
             reward == Candidate(t, table, j, k)
         IN  EvalLoop(t, table, m + 1,
                IF Improves(reward, best.reward)
                THEN [reward |-> reward, pos |-> <<j, k>>]
                ELSE best)

evaluate_position(t, table) ==
    IF Size(t) = 1
    THEN [reward |-> At(t, 0, 0, 0), pos |-> <<0, 0>>]
    ELSE EvalLoop(t, table, 1, [reward |-> 0 - 1, pos |-> None])

\* estimator invocations made by one evaluate_position call
EvalCalls(t) ==
    IF Size(t) = 1 THEN {}
    ELSE { <<LookaheadIndex(Size(t)), Size(Eliminate(t, j, k))>> :
             j \in 0..(Size(t) - 1), k \in 0..(Size(t) - 1) }


\* ------------------------------------------------------------ checkpoints
\* save_weights: writes state_dict() under name unless weights_folder is None
save_weights(files, folder, name, net) ==
    IF folder
    THEN [x \in (DOMAIN files) \cup {name} |->
            IF x = name THEN state_dict(net) ELSE files[x]]
    ELSE files

\* ---------------------------------------------------------- initial state
NoRet ==
    [call |-> "none", arg |-> << >>, raised |-> FALSE, value |-> 0,
     has_pos |-> FALSE, pos |-> None, rewards |-> << >>, positions |-> << >>]
NotLoaded == [status |-> "none", arg |-> 0, n |-> 0, value_networks |-> << >>]

RolloutIdle ==
    /\ heap = << >>
    /\ cost = 0
    /\ rewards = << >>
    /\ positions = << >>
    /\ recorded = << >>
    /\ return_positions = FALSE
    /\ caller = "none"

TrainIdle ==
    /\ ctor_i = 0
    /\ new_network = ClassicalValueEstimator(0)
    /\ iteration = 0
    /\ batch_i = 0
    /\ all_rewards = << >>
    /\ all_pred_rewards = << >>

Init ==
    /\ pc = "new"
    /\ requested = 0
    /\ weights_folder = TRUE
    /\ n = 0
    /\ value_networks = << >>
    /\ weights = << >>
    /\ TrainIdle
    /\ RolloutIdle
    /\ ret = NoRet
    /\ loaded = NotLoaded
    /\ calls = {}
    /\ events = << >>

\* ------------------------------------------------------- Agent.__init__
NeedsFineTuneFromTwo(nreq) == nreq >= 2
NeedsFineTune(nreq) == nreq > 2            \* if n > 2

\* lines 51-68: everything before the for loop
Construct ==
    /\ pc = "new"
    /\ \E nreq \in 0..MaxN, folder \in BOOLEAN :
         /\ requested' = nreq
         /\ weights_folder' = folder
    /\ n' = 2
    /\ value_networks' = <<ClassicalValueEstimator(0), ClassicalValueEstimator(1)>>
    /\ ctor_i' = 2
    /\ pc' = "ctor"
    /\ events' = << >>
    /\ calls' = {}
    /\ UNCHANGED <<weights, new_network, iteration, batch_i, all_rewards,
                   all_pred_rewards, ret, loaded>>
    /\ UNCHANGED rolloutVars

\* for i in range(2, n): entry into pretrain_new_network (lines 92-96)
CtorPretrain ==
    /\ pc = "ctor"
    /\ ctor_i < requested
    /\ \E p \in Params : new_network' = ValueNetwork(n, p)
    /\ iteration' = 0
    /\ pc' = "pretrain"
    /\ events' = Append(events, <<"pretrain", n>>)
    /\ calls' = {}
    /\ UNCHANGED <<ctor_i, batch_i, all_rewards, all_pred_rewards, ret, loaded>>
    /\ UNCHANGED agentVars
    /\ UNCHANGED rolloutVars

\* if n > 2: self.fine_tune() (lines 152-156)
CtorFineTune ==
    /\ pc = "ctor"
    /\ ~(ctor_i < requested)
    /\ NeedsFineTune(requested)
    /\ iteration' = 0
    /\ pc' = "ft_iter"
    /\ events' = Append(events, <<"fine_tune", n>>)
    /\ calls' = {}
    /\ UNCHANGED <<ctor_i, new_network, batch_i, all_rewards, all_pred_rewards,
                   ret, loaded>>
    /\ UNCHANGED agentVars
    /\ UNCHANGED rolloutVars

CtorDone ==
    /\ pc = "ctor"
    /\ ~(ctor_i < requested)
    /\ ~NeedsFineTune(requested)
    /\ pc' = "ready"
    /\ ctor_i' = 0
    /\ calls' = {}
    /\ UNCHANGED <<new_network, iteration, batch_i, all_rewards,
                   all_pred_rewards, ret, loaded, events>>
    /\ UNCHANGED agentVars
    /\ UNCHANGED rolloutVars

\* ------------------------------------------------- pretrain_new_network
iter_multiplier(size) == IF size = 2 THEN 4 ELSE 1

\* one iteration of the training loop (lines 99-106), batch of one instance
PretrainStep ==
    /\ pc = "pretrain"
    /\ iteration < hyper_params.num_pretrain_iters * iter_multiplier(n)
    /\ \E c \in get_instance(n) :
         calls' = {<<new_network.n, Size(c)>>} \cup EvalCalls(c)
    /\ \E p \in Params : new_network' = ValueNetwork(n, p)
    /\ iteration' = iteration + 1
    /\ UNCHANGED <<pc, ctor_i, batch_i, all_rewards, all_pred_rewards, ret,
                   loaded, events>>
    /\ UNCHANGED agentVars
    /\ UNCHANGED rolloutVars

\* lines 107-110, then the next round of __init__'s loop
PretrainFinish ==
    /\ pc = "pretrain"
    /\ ~(iteration < hyper_params.num_pretrain_iters * iter_multiplier(n))
    /\ weights' = save_weights(weights, weights_folder, <<"pretrain", n>>, new_network)
    /\ value_networks' = Append(value_networks, new_network)
    /\ n' = n + 1
    /\ ctor_i' = ctor_i + 1
    /\ pc' = "ctor"
    /\ new_network' = ClassicalValueEstimator(0)
    /\ iteration' = 0
    /\ calls' = {}
    /\ UNCHANGED <<requested, weights_folder, batch_i, all_rewards,
                   all_pred_rewards, ret, loaded, events>>
    /\ UNCHANGED rolloutVars

\* ------------------------------------------------------------ get_rewards
\* list elements of `rewards`: cost[0, j, k] is a 0-dim view of storage t;
\* cost.item() is a Python float
View(t, j, k) == [kind |-> "view", t |-> t, j |-> j, k |-> k, v |-> 0]
Float(v) == [kind |-> "float", t |-> 0, j |-> 0, k |-> 0, v |-> v]

Value(r, hp) == IF r.kind = "view" THEN At(hp[r.t], 0, r.j, r.k) ELSE r.v
Values(rw, hp) == [i \in 1..Len(rw) |-> Value(rw[i], hp)]
Tensors(ps, hp) == [i \in 1..Len(ps) |-> hp[ps[i]]]

\* entry to get_rewards (lines 116-117) with argument c
EnterRollout(c, want_positions, who) ==
    /\ heap' = <<c>>
    /\ cost' = 1
    /\ rewards' = << >>
    /\ positions' = << >>
    /\ recorded' = << >>
    /\ return_positions' = want_positions
    /\ caller' = who
    /\ pc' = "rollout"

LeaveTraining ==
    /\ ctor_i' = 0
    /\ new_network' = ClassicalValueEstimator(0)
    /\ iteration' = 0
    /\ batch_i' = 0
    /\ all_rewards' = << >>
    /\ all_pred_rewards' = << >>

LeaveRollout ==
    /\ heap' = << >>
    /\ cost' = 0
    /\ rewards' = << >>
    /\ positions' = << >>
    /\ recorded' = << >>
    /\ return_positions' = FALSE
    /\ caller' = "none"

RewardPicked(t, j, k) == View(t, j, k)     \* rewards.append(cost[0, j, k])

\* lines 120-126 for an action (j, k)
RolloutAdvance(j, k) ==
    /\ rewards' = Append(rewards, RewardPicked(cost, j, k))
    /\ positions' = IF return_positions THEN Append(positions, cost) ELSE positions
    /\ recorded' = IF return_positions THEN Append(recorded, heap[cost]) ELSE recorded
    /\ heap' = Append(heap, Eliminate(heap[cost], j, k))
    /\ cost' = Len(heap) + 1
    /\ UNCHANGED <<pc, return_positions, caller, ret>>
    /\ UNCHANGED trainVars

\* line 120 with best_action = None: "j, k = best_action" raises TypeError,
\* which leaves get_rewards and every caller up to the top level
RolloutRaise ==
    /\ IF caller = "fine_tune"
       THEN /\ pc' = "failed"
            /\ ret' = ret
       ELSE /\ pc' = "ready"
            /\ ret' = [NoRet EXCEPT !.call = caller, !.arg = heap[1],
                                    !.raised = TRUE]
    /\ LeaveRollout
    /\ LeaveTraining

\* one round of the while loop (lines 118-126)
RolloutStep ==
    /\ pc = "rollout"
    /\ Size(heap[cost]) > 1
    /\ \E best_action \in {evaluate_position(heap[cost], value_networks).pos} :
         IF best_action = None
         THEN RolloutRaise
         ELSE RolloutAdvance(best_action[1], best_action[2])
    /\ calls' = EvalCalls(heap[cost])
    /\ UNCHANGED <<loaded, events>>
    /\ UNCHANGED agentVars

\* lines 127-131: the loop has ended; return to fine_tune
RolloutReturnToFineTune ==
    /\ pc = "rollout"
    /\ ~(Size(heap[cost]) > 1)
    /\ caller = "fine_tune"
    /\ rewards' = Append(rewards, Float(At(heap[cost], 0, 0, 0)))
    /\ positions' = Append(positions, cost)
    /\ recorded' = Append(recorded, heap[cost])
    /\ pc' = "ft_sum"
    /\ calls' = {}
    /\ UNCHANGED <<heap, cost, return_positions, caller, ret, loaded, events>>
    /\ UNCHANGED agentVars
    /\ UNCHANGED trainVars

\* lines 127-131, and line 113 when the caller is act
RolloutReturn ==
    /\ pc = "rollout"
    /\ ~(Size(heap[cost]) > 1)
    /\ caller # "fine_tune"
    /\ LET rw == Append(rewards, Float(At(heap[cost], 0, 0, 0)))
           ps == Append(positions, cost)
       IN  ret' = [NoRet EXCEPT
                     !.call = caller,
                     !.arg = heap[1],
                     !.rewards = Values(rw, heap),
                     !.value = IF caller = "act" THEN SumSeq(Values(rw, heap)) ELSE 0,
                     !.positions = IF return_positions
                                   THEN Tensors(ps, heap) ELSE << >>]
    /\ LeaveRollout
    /\ pc' = "ready"
    /\ calls' = {}
    /\ UNCHANGED <<loaded, events>>
    /\ UNCHANGED agentVars
    /\ UNCHANGED trainVars

\* --------------------------------------------------------------- fine_tune
\* for iteration in trange(num_finetune_iters): lines 158-160
FtIterBegin ==
    /\ pc = "ft_iter"
    /\ iteration < hyper_params.num_finetune_iters
    /\ all_rewards' = << >>
    /\ all_pred_rewards' = << >>
    /\ batch_i' = 0
    /\ pc' = "ft_batch"
    /\ calls' = {}
    /\ UNCHANGED <<ctor_i, new_network, iteration, ret, loaded, events>>
    /\ UNCHANGED agentVars
    /\ UNCHANGED rolloutVars

\* for _ in range(finetune_batch_size): lines 162-163, the call of get_rewards
FtSample ==
    /\ pc = "ft_batch"
    /\ batch_i < hyper_params.finetune_batch_size
    /\ \E c \in get_instance(n - 1) : EnterRollout(c, TRUE, "fine_tune")
    /\ calls' = {}
    /\ UNCHANGED <<ret, loaded, events>>
    /\ UNCHANGED agentVars
    /\ UNCHANGED trainVars

\* rewards[i - 1] += rewards[i]: Tensor.__iadd__ adds in place, into the
\* storage the view belongs to; a float is rebound to the sum
IAdd(st, i, add) ==
    LET r == st.rewards[i] IN
    IF r.kind = "view"
    THEN [st EXCEPT !.heap[r.t][1][r.j + 1][r.k + 1] = @ + add]
    ELSE [st EXCEPT !.rewards[i].v = @ + add]

\* for i in range(first, 0, -1): rewards[i - 1] += rewards[i]
RECURSIVE TrailingSumLoop(_, _)
TrailingSumLoop(st, i) ==
    IF i <= 0 THEN st
    ELSE TrailingSumLoop(IAdd(st, i, Value(st.rewards[i + 1], st.heap)), i - 1)

TrailingSumSkipFirst(rw, hp, size) ==
    TrailingSumLoop([rewards |-> rw, heap |-> hp], size - 3)
TrailingSum(rw, hp, size) ==
    TrailingSumLoop([rewards |-> rw, heap |-> hp], size - 2)

\* lines 164-165
FtTrailingSum ==
    /\ pc = "ft_sum"
    /\ LET st == TrailingSum(rewards, heap, n)
       IN  /\ rewards' = st.rewards
           /\ heap' = st.heap
    /\ pc' = "ft_pred"
    /\ calls' = {}
    /\ UNCHANGED <<cost, positions, recorded, return_positions, caller, ret,
                   loaded, events>>
    /\ UNCHANGED agentVars
    /\ UNCHANGED trainVars

PredIndexTopLevel(size, i) == size - 1
PredIndex(size, i) == size - i - 1         \* self.value_networks[self.n - i - 1]

\* lines 166-169
FtPredict ==
    /\ pc = "ft_pred"
    /\ LET pred_rewards ==
             [m \in 1..Len(positions) |->
                Call(Entry(value_networks, PredIndex(n, m - 1)), heap[positions[m]])]
       IN  /\ all_pred_rewards' = Append(all_pred_rewards, pred_rewards)
           /\ all_rewards' = Append(all_rewards, Values(rewards, heap))
    /\ calls' = { <<PredIndex(n, m - 1), Size(heap[positions[m]])>> :
                    m \in 1..Len(positions) }
    /\ batch_i' = batch_i + 1
    /\ pc' = "ft_batch"
    /\ UNCHANGED <<ctor_i, new_network, iteration, ret, loaded, events>>
    /\ UNCHANGED agentVars
    /\ UNCHANGED rolloutVars

\* optimizer.step() over the parameters of value_networks[2:]
Stepped(table) ==
    { [i \in 1..Len(table) |->
         IF i <= 2 THEN table[i] ELSE ValueNetwork(table[i].n, ps[i])] :
      ps \in [3..Len(table) -> Params] }

\* lines 170-173
FtOptimizerStep ==
    /\ pc = "ft_batch"
    /\ ~(batch_i < hyper_params.finetune_batch_size)
    /\ value_networks' \in Stepped(value_networks)
    /\ iteration' = iteration + 1
    /\ pc' = "ft_iter"
    /\ LeaveRollout
    /\ calls' = {}
    /\ UNCHANGED <<requested, weights_folder, n, weights, ctor_i, new_network,
                   batch_i, all_rewards, all_pred_rewards, ret, loaded, events>>

\* for i in range(2, self.n): save_weights(f"finetune-{i}", ...)
RECURSIVE SaveAll(_, _, _, _, _)
SaveAll(files, folder, prefix, table, i) ==
    IF i >= Len(table) THEN files
    ELSE SaveAll(save_weights(files, folder, <<prefix, i>>, Entry(table, i)),
                 folder, prefix, table, i + 1)

\* lines 174-176, and the return from __init__
FtSave ==
    /\ pc = "ft_iter"
    /\ ~(iteration < hyper_params.num_finetune_iters)
    /\ weights' = SaveAll(weights, weights_folder, "finetune", value_networks, 2)
    /\ pc' = "ready"
    /\ LeaveTraining
    /\ calls' = {}
    /\ UNCHANGED <<requested, weights_folder, n, value_networks, ret, loaded,
                   events>>
    /\ UNCHANGED rolloutVars

\* -------------------------------------------------------------- Agent.load
\* agent = cls(); the body of "for i in range(2, n)" names `self`, which is
\* not bound in a classmethod: the first round raises NameError
load(nreq) ==
    LET agent == [n |-> 2,
                  value_networks |-> <<ClassicalValueEstimator(0),
                                       ClassicalValueEstimator(1)>>]
    IN  IF 2 < nreq
        THEN [status |-> "NameError", arg |-> nreq, n |-> 0,
              value_networks |-> << >>]
        ELSE [status |-> "returned", arg |-> nreq, n |-> agent.n,
              value_networks |-> agent.value_networks]

Load ==
    /\ pc = "ready"
    /\ \E nreq \in 0..MaxN : loaded' = load(nreq)
    /\ calls' = {}
    /\ UNCHANGED <<pc, ret, events>>
    /\ UNCHANGED agentVars
    /\ UNCHANGED trainVars
    /\ UNCHANGED rolloutVars

\* --------------------------------------------------------------- inference
\* a cost state the table covers: evaluate_position reads entry size - 1
Covered == UNION { get_instance(size) : size \in 1..n }

\* the caller has the value of the call that returned or raised
TakeResult ==
    /\ pc = "ready"
    /\ ret.call # "none"
    /\ ret' = NoRet
    /\ calls' = {}
    /\ UNCHANGED <<pc, loaded, events>>
    /\ UNCHANGED agentVars
    /\ UNCHANGED trainVars
    /\ UNCHANGED rolloutVars

EvaluatePosition ==
    /\ pc = "ready"
    /\ ret.call = "none"
    /\ \E c \in Covered :
         /\ \E e \in {evaluate_position(c, value_networks)},
               return_best_move \in BOOLEAN :
              ret' = [NoRet EXCEPT
                        !.call = "evaluate_position",
                        !.arg = c,
                        !.value = e.reward,
                        !.has_pos = (return_best_move \/ Size(c) = 1),
                        !.pos = IF return_best_move \/ Size(c) = 1
                                THEN e.pos ELSE None]
         /\ calls' = EvalCalls(c)
    /\ UNCHANGED <<pc, loaded, events>>
    /\ UNCHANGED agentVars
    /\ UNCHANGED trainVars
    /\ UNCHANGED rolloutVars

GetRewards ==
    /\ pc = "ready"
    /\ ret.call = "none"
    /\ \E c \in Covered, want_positions \in BOOLEAN :
         EnterRollout(c, want_positions, "get_rewards")
    /\ ret' = NoRet
    /\ calls' = {}
    /\ UNCHANGED <<loaded, events>>
    /\ UNCHANGED agentVars
    /\ UNCHANGED trainVars

ActAndStep ==
    /\ pc = "ready"
    /\ ret.call = "none"
    /\ \E c \in Covered : EnterRollout(c, FALSE, "act")
    /\ ret' = NoRet
    /\ calls' = {}
    /\ value_networks' \in Stepped(value_networks)
    /\ UNCHANGED <<loaded, events, requested, weights_folder, n, weights>>
    /\ UNCHANGED trainVars

\* line 113: the call of get_rewards(cost)
Act ==
    /\ pc = "ready"
    /\ ret.call = "none"
    /\ \E c \in Covered : EnterRollout(c, FALSE, "act")
    /\ ret' = NoRet
    /\ calls' = {}
    /\ UNCHANGED <<loaded, events>>
    /\ UNCHANGED agentVars
    /\ UNCHANGED trainVars

\* ---------------------------------------------------------- specifications
\* construction, training and loading
Next ==
    \/ Construct
    \/ CtorPretrain
    \/ CtorFineTune
    \/ CtorDone
    \/ PretrainStep
    \/ PretrainFinish
    \/ FtIterBegin
    \/ FtSample
    \/ RolloutStep
    \/ RolloutReturnToFineTune
    \/ FtTrailingSum
    \/ FtPredict
    \/ FtOptimizerStep
    \/ FtSave
    \/ Load

Spec == Init /\ [][Next]_vars

\* inference on a constructed agent that was trained without a weights folder
Tables(size) ==
    { [i \in 1..size |->
         IF i <= 2 THEN ClassicalValueEstimator(i - 1)
         ELSE ValueNetwork(i - 1, ps[i])] :
      ps \in [3..size -> Params] }

EventsOf(size) ==
    [i \in 1..(size - 2) |-> <<"pretrain", i + 1>>]
      \o (IF size > 2 THEN << <<"fine_tune", size>> >> ELSE << >>)

InitInfer ==
    /\ pc = "ready"
    /\ requested \in 2..MaxN
    /\ weights_folder = FALSE
    /\ n = requested
    /\ value_networks \in Tables(n)
    /\ weights = << >>
    /\ TrainIdle
    /\ RolloutIdle
    /\ ret = NoRet
    /\ loaded = NotLoaded
    /\ calls = {}
    /\ events = EventsOf(n)

NextInfer ==
    \/ EvaluatePosition
    \/ GetRewards
    \/ Act
    \/ RolloutStep
    \/ RolloutReturn
    \/ TakeResult

SpecInfer == InitInfer /\ [][NextInfer]_vars

\* ------------------------------------------------------------------ claims
InRange(pos, size) ==
    /\ Len(pos) = 2
    /\ pos[1] \in 0..(size - 1)
    /\ pos[2] \in 0..(size - 1)

IsMaximum(t, table, v) ==
    /\ \E j \in 0..(Size(t) - 1), k \in 0..(Size(t) - 1) : Candidate(t, table, j, k) = v
    /\ \A j \in 0..(Size(t) - 1), k \in 0..(Size(t) - 1) : Candidate(t, table, j, k) <= v

EvaluatedWithMove ==
    /\ ret.call = "evaluate_position"
    /\ ret.has_pos
    /\ Size(ret.arg) >= 2

\* C1: evaluate_position on a covered state of size s >= 2 returns an action
\* (j, k) with 0 <= j, k < s, never an absent one, and a value that is the
\* maximum over all s*s pairs of state[0,j,k] + estimator[s-1](sub-state),
\* attained at the returned pair.
C1_ReturnsMaximizingPair ==
    EvaluatedWithMove =>
        /\ InRange(ret.pos, Size(ret.arg))
        /\ IsMaximum(ret.arg, value_networks, ret.value)
        /\ Candidate(ret.arg, value_networks, ret.pos[1], ret.pos[2]) = ret.value

Earlier(p, q, size) == p[1] * size + p[2] < q[1] * size + q[2]

\* C2: when several candidates of a state of size >= 2 yield the best value,
\* evaluate_position returns the earliest of them in enumeration order
\* (increasing j, then increasing k).
C2_EarliestOfTheBest ==
    EvaluatedWithMove =>
        /\ InRange(ret.pos, Size(ret.arg))
        /\ \A j \in 0..(Size(ret.arg) - 1), k \in 0..(Size(ret.arg) - 1) :
             LET here == Candidate(ret.arg, value_networks, ret.pos[1], ret.pos[2])
                 there == Candidate(ret.arg, value_networks, j, k)
             IN  /\ there <= here
                 /\ there = here => ~Earlier(<<j, k>>, ret.pos, Size(ret.arg))

\* C3: get_rewards on a covered state of size s >= 1 returns (it does not
\* raise) a reward sequence of length exactly s whose last element is the
\* single entry of the final 1x1x1 state, and act returns the sum of the
\* sequence.
C3_RolloutReturnsSRewards ==
    (ret.call \in {"get_rewards", "act"}) =>
        /\ ~ret.raised
        /\ Len(ret.rewards) = Size(ret.arg)
        /\ ret.positions # << >> =>
             /\ Size(ret.positions[Len(ret.positions)]) = 1
             /\ ret.rewards[Len(ret.rewards)]
                  = At(ret.positions[Len(ret.positions)], 0, 0, 0)
        /\ ret.call = "act" => ret.value = SumSeq(ret.rewards)

\* C4: once an agent trained to size n has written its fine-tuned
\* checkpoints, Agent.load(n) returns an agent of tracked size n whose entry
\* i, 2 <= i < n, is a fresh estimator of size i holding the parameters saved
\* under finetune-i, so that it acts as the agent that saved them.
C4_LoadRestoresTable ==
    (/\ pc = "ready"
     /\ weights_folder
     /\ requested > 2
     /\ loaded.status # "none"
     /\ loaded.arg = n) =>
        /\ loaded.status = "returned"
        /\ loaded.n = n
        /\ Len(loaded.value_networks) = n
        /\ \A i \in 2..(n - 1) :
             Entry(loaded.value_networks, i)
               = ValueNetwork(i, weights[<<"finetune", i>>])
        /\ loaded.value_networks = value_networks

\* C5: a sequence of pure-inference calls (evaluate_position, get_rewards,
\* act) leaves every estimator's parameters, the estimator table and the
\* tracked size n as they were.
C5_InferenceKeepsTable == [][UNCHANGED <<n, value_networks>>]_vars

C5_Witness ==
    /\ ret.call = "act"
    /\ ~ret.raised
    /\ Size(ret.arg) >= 3
    /\ ret.value > 0

C6_Expected(nreq) ==
    [i \in 1..(IF nreq > 2 THEN nreq - 2 ELSE 0) |-> <<"pretrain", i + 1>>]
      \o (IF nreq > 2 THEN << <<"fine_tune", nreq>> >> ELSE << >>)

IsPrefix(s, t) == Len(s) <= Len(t) /\ \A i \in 1..Len(s) : s[i] = t[i]

Pretrained ==
    Cardinality({ i \in 1..Len(events) : events[i][1] = "pretrain" })
      - (IF pc = "pretrain" THEN 1 ELSE 0)

\* C6: construction starts from the two exact estimators, pretrains one
\* estimator for each size 2, ..., n-1 in increasing order, each adding one
\* entry and one to the tracked size; fine-tuning runs once, after all
\* pretraining, if n > 2 and never if n <= 2; when construction ends the
\* table has max(n, 2) entries and the tracked size is the table length.
C6_ConstructionOrder ==
    pc # "new" =>
        /\ Len(value_networks) >= 2
        /\ value_networks[1] = ClassicalValueEstimator(0)
        /\ value_networks[2] = ClassicalValueEstimator(1)
        /\ IsPrefix(events, C6_Expected(requested))
        /\ Len(value_networks) = 2 + Pretrained
        /\ n = Len(value_networks)
        /\ \A i \in 3..Len(value_networks) :
             value_networks[i].cls = "ValueNetwork" /\ value_networks[i].n = i - 1
        /\ pc \in {"ready", "failed"} =>
             /\ events = C6_Expected(requested)
             /\ Len(value_networks) = (IF requested > 2 THEN requested ELSE 2)

C6_Witness ==
    /\ pc = "ready"
    /\ requested >= 4
    /\ Len(events) = 3

\* C7: a cost state is never changed once created: at the moment the
\* predictions of a fine-tuning round are computed each recorded state, the
\* sampled instance included, has the entries it had when it was recorded.
C7_RecordedStatesIntact ==
    pc = "ft_pred" =>
        \A i \in 1..Len(positions) : heap[positions[i]] = recorded[i]

\* C8: every estimator invocation applies the table entry of index s to a
\* state of size exactly s.
C8_EntryMatchesSize == \A c \in calls : c[1] = c[2]

C8_Witness ==
    /\ pc = "ft_batch"
    /\ batch_i = 1
    /\ calls = {<<1, 1>>, <<2, 2>>, <<3, 3>>}

RECURSIVE SumFrom(_, _)
SumFrom(r, i) == IF i > Len(r) THEN 0 ELSE r[i] + SumFrom(r, i + 1)

\* C9: the trailing-sum transform turns the rollout's reward sequence r of
\* length m = n-1 into t with t[i] = r[i] + ... + r[m-1] for every i, the
\* last element unchanged, and the targets are as many as the predictions.
C9_TrailingSums ==
    /\ [][pc = "ft_sum" =>
            LET r == Values(rewards, heap)
                t == Values(rewards', heap')
            IN  /\ Len(r) = n - 1
                /\ Len(t) = Len(r)
                /\ \A i \in 1..Len(r) : t[i] = SumFrom(r, i)
                /\ t[Len(t)] = r[Len(r)]]_vars
    /\ [](/\ Len(all_rewards) = Len(all_pred_rewards)
          /\ \A b \in 1..Len(all_rewards) :
               Len(all_rewards[b]) = Len(all_pred_rewards[b]))

C9_Witness ==
    /\ pc = "ft_pred"
    /\ Len(rewards) = 3
    /\ recorded[1][1][rewards[1].j + 1][rewards[1].k + 1] > 0
    /\ recorded[2][1][rewards[2].j + 1][rewards[2].k + 1] > 0
    /\ rewards[3].v > 0

Skip(x, removed) == IF x < removed THEN x ELSE x + 1

\* new keeps, in their order, the entries of old whose first index is not 0,
\* second index is not j and third index is not k
KeepsExactly(old, new, j, k) ==
    /\ Size(new) = Size(old) - 1
    /\ \A a \in 1..Size(new) :
         /\ Len(new[a]) = Size(new)
         /\ \A b \in 1..Size(new) : Len(new[a][b]) = Size(new)
    /\ \A a \in 0..(Size(new) - 1), b \in 0..(Size(new) - 1), c \in 0..(Size(new) - 1) :
         At(new, a, b, c) = At(old, a + 1, Skip(b, j), Skip(c, k))

\* C10: each elimination step turns a state of size s >= 2 into a new state
\* of size s-1 keeping, in order, exactly the entries whose indices avoid
\* row-block 0, row j and column k; the reward of a step is the entry
\* [0, j, k] of the state it was chosen on by evaluate_position; the states
\* get_rewards returns have sizes s, s-1, ..., 1, one per reward.
C10_EliminationStep ==
    /\ pc = "rollout" =>
         /\ Len(rewards) = Len(heap) - 1
         /\ cost = Len(heap)
         /\ \A i \in 1..(Len(heap) - 1) :
              /\ rewards[i].kind = "view"
              /\ rewards[i].t = i
              /\ KeepsExactly(heap[i], heap[i + 1], rewards[i].j, rewards[i].k)
         /\ Len(heap) > 1 =>
              LET last == Len(heap) - 1 IN     \* the step just taken
              <<rewards[last].j, rewards[last].k>>
                = evaluate_position(heap[last], value_networks).pos
         /\ Size(heap[cost]) >= 2 =>
              \A j \in 0..(Size(heap[cost]) - 1), k \in 0..(Size(heap[cost]) - 1) :
                  KeepsExactly(heap[cost], Eliminate(heap[cost], j, k), j, k)
    /\ (ret.call = "get_rewards" /\ ~ret.raised /\ ret.positions # << >>) =>
         /\ Len(ret.positions) = Len(ret.rewards)
         /\ ret.positions[1] = ret.arg
         /\ \A i \in 1..Len(ret.positions) :
              Size(ret.positions[i]) = Size(ret.arg) - i + 1
         /\ \A i \in 1..(Len(ret.positions) - 1) :
              \E j \in 0..(Size(ret.positions[i]) - 1), k \in 0..(Size(ret.positions[i]) - 1) :
                  /\ ret.rewards[i] = At(ret.positions[i], 0, j, k)
                  /\ KeepsExactly(ret.positions[i], ret.positions[i + 1], j, k)

C10_Witness ==
    /\ ret.call = "get_rewards"
    /\ ~ret.raised
    /\ Len(ret.positions) >= 3
    /\ \E j \in 0..(Size(ret.arg) - 1), k \in 0..(Size(ret.arg) - 1) :
         /\ j # k
         /\ <<j, k>> = evaluate_position(ret.arg, value_networks).pos
====
